---- MODULE Spec2Model ----
(***************************************************************************)
(* Attendance scanner: the OCR text pipeline of parser.py and the roster   *)
(* matcher of matcher.py.                                                  *)
(*                                                                         *)
(* A Python str is a sequence of characters; a character is a one-letter   *)
(* TLA+ string.  The few non-ASCII characters the code names are written   *)
(* by code point: "U+2014" is the em dash, "U+00E9" is e-acute, and so on. *)
(***************************************************************************)
EXTENDS Integers, Sequences, FiniteSets, TLC

(***************************************************************************)
(* Characters and the classes Python's re and str use.                     *)
(***************************************************************************)
UpperLetters ==
  <<"A", "B", "C", "D", "E", "F", "G", "H", "I", "J", "K", "L", "M",
    "N", "O", "P", "Q", "R", "S", "T", "U", "V", "W", "X", "Y", "Z">>

LowerLetters ==
  <<"a", "b", "c", "d", "e", "f", "g", "h", "i", "j", "k", "l", "m",
    "n", "o", "p", "q", "r", "s", "t", "u", "v", "w", "x", "y", "z">>

Range(f) == {f[i] : i \in DOMAIN f}

\* A sequence given as a function, as the tuple it is.
AsTuple(f) == f \o <<>>

UpperSet == Range(UpperLetters)

LowerSet == Range(LowerLetters)

AsciiLetters == UpperSet \cup LowerSet

Digits == {"0", "1", "2", "3", "4", "5", "6", "7", "8", "9"}

\* Non-ASCII letters of the substitution table, plus e-acute as one accented
\* letter the table does not list.
AccentedLetters ==
  {"U+00BA", "U+00AA", "U+00C3", "U+00CD", "U+00ED", "U+00E2", "U+00F3", "U+00E9"}

\* \w of a str pattern: letters, digits and the underscore.
WordChars == AsciiLetters \cup Digits \cup {"_"} \cup AccentedLetters

\* \s, and what str.strip() and str.split() treat as white space.
SpaceChars == {" ", "\n", "\t"}

IsWordChar(c) == c \in WordChars

IsSpace(c) == c \in SpaceChars

\* str.upper() and str.lower() of one character (ASCII letters; the pipeline
\* applies them only after everything else has been removed).
UpperOf == [c \in LowerSet |-> UpperLetters[CHOOSE i \in 1..26 : LowerLetters[i] = c]]

LowerOf == [c \in UpperSet |-> LowerLetters[CHOOSE i \in 1..26 : UpperLetters[i] = c]]

UpperChar(c) == IF c \in LowerSet THEN UpperOf[c] ELSE c

LowerChar(c) == IF c \in UpperSet THEN LowerOf[c] ELSE c

\* The one element of a set of one element.  A chain of assignments
\* out = f(out) is written as the sets {f(out) : out \in {...}} one inside
\* the other, the first assignment innermost, each value computed before
\* the next step starts.
ByValue(S) == CHOOSE x \in S : TRUE

Upper(s) == AsTuple([i \in 1..Len(s) |-> UpperChar(s[i])])

\* str.title(): a letter that follows a letter is lowercased, any other
\* letter is uppercased.
Title(s) ==
  AsTuple([i \in 1..Len(s) |->
     IF i > 1 /\ s[i-1] \in AsciiLetters THEN LowerChar(s[i]) ELSE UpperChar(s[i])])

\* s[i:] with i counted from 1.
Tail_from(s, i) == SubSeq(s, i, Len(s))

\* str.startswith
StartsWith(s, p) == Len(p) <= Len(s) /\ SubSeq(s, 1, Len(p)) = p

\* p occurs in s at position i.
OccursAt(s, p, i) == i + Len(p) - 1 <= Len(s) /\ SubSeq(s, i, i + Len(p) - 1) = p

\* the `in` operator of two strings
Contains(s, p) == \E i \in 1..(Len(s) + 1) : OccursAt(s, p, i)

\* \b before position i (1..Len(s)+1).
WordBoundary(s, i) ==
  LET before == i > 1 /\ IsWordChar(s[i-1])
      after  == i <= Len(s) /\ IsWordChar(s[i])
  IN  before # after

Min(S) == CHOOSE x \in S : \A y \in S : x <= y

Max(S) == CHOOSE x \in S : \A y \in S : y <= x

\* The k-th smallest element of a set of numbers.
Nth(S, k) == CHOOSE x \in S : Cardinality({y \in S : y <= x}) = k

\* A position a rewriting drops is marked by the empty string, which is no
\* character; Compact removes the marks.
Dropped == ""

IsKept(c) == c # Dropped

Compact(f) == SelectSeq(AsTuple(f), IsKept)

\* re.sub of a one-character class by a space.
SubClass(s, class) ==
  AsTuple([i \in 1..Len(s) |-> IF s[i] \in class THEN " " ELSE s[i]])

\* str.strip()
Strip(s) ==
  LET solid == {i \in 1..Len(s) : ~IsSpace(s[i])}
  IN  IF solid = {} THEN <<>> ELSE SubSeq(s, Min(solid), Max(solid))

\* re.sub(r'\s+', ' ', s): each run of white space becomes one space.
CollapseRuns(s) ==
  Compact([i \in 1..Len(s) |->
    IF ~IsSpace(s[i]) THEN s[i]
    ELSE IF i > 1 /\ IsSpace(s[i-1]) THEN Dropped
    ELSE " "])

\* re.sub(r'\s+', ' ', s).strip()
CollapseSpaces(s) == Strip(CollapseRuns(s))

\* Where the words of str.split() start: a character that is no white space
\* and follows white space or nothing.
WordStarts(s) ==
  {i \in 1..Len(s) : ~IsSpace(s[i]) /\ (i = 1 \/ IsSpace(s[i-1]))}

\* The last position of the run of non-space characters that starts at i.
WordEnd(s, i) ==
  Min({j \in i..Len(s) : j = Len(s) \/ IsSpace(s[j+1])})

\* str.split(): the maximal runs of non-space characters, in order.
Split(s) ==
  AsTuple([k \in 1..Cardinality(WordStarts(s)) |->
             SubSeq(s, Nth(WordStarts(s), k), WordEnd(s, Nth(WordStarts(s), k)))])

RECURSIVE JoinSp(_)
\* ' '.join(parts)
JoinSp(parts) ==
  IF parts = <<>> THEN <<>>
  ELSE IF Len(parts) = 1 THEN parts[1]
  ELSE parts[1] \o <<" ">> \o JoinSp(Tail(parts))

(***************************************************************************)
(* parser.py: the static tables.                                           *)
(***************************************************************************)
COMMON_ROLES ==
  << <<"P", "E", "D", "R", "E", "I", "R", "O">>,
     <<"S", "E", "R", "V", "E", "N", "T", "E">>,
     <<"P", "I", "N", "T", "O", "R">>,
     <<"E", "L", "E", "T", "R", "I", "C", "I", "S", "T", "A">>,
     <<"A", "L", "M", "O", "X", "A", "R", "I", "F", "E">>,
     <<"F", "E", "R", "R", "E", "I", "R", "O">>,
     <<"A", "U", "X", "I", "L", "I", "A", "R">>,
     <<"E", "N", "C", "A", "N", "A", "D", "O", "R">>,
     <<"M", "A", "R", "C", "E", "N", "E", "I", "R", "O">>,
     <<"S", "E", "R", "V", "I", "C", "O">> >>

COMMON_FIRST_NAMES ==
  << <<"A", "D", "R", "I", "A", "N", "O">>,
     <<"A", "L", "D", "E", "N", "I", "R">>,
     <<"A", "N", "D", "R", "E">>,
     <<"A", "N", "T", "O", "N", "I", "O">>,
     <<"A", "N", "T", "O", "N", "I", "O">>,
     <<"C", "A", "I", "O">>,
     <<"R", "A", "F", "A", "E", "L">>,
     <<"C", "O", "S", "M", "E">>,
     <<"D", "A", "M", "I", "A", "O">>,
     <<"E", "M", "E", "R", "S", "O", "N">>,
     <<"F", "L", "A", "V", "I", "O">>,
     <<"F", "R", "A", "N", "C", "I", "S", "C", "O">>,
     <<"J", "O", "A", "O">>,
     <<"J", "O", "S", "E">>,
     <<"J", "O", "R", "G", "E">>,
     <<"L", "E", "A", "N", "D", "R", "O">>,
     <<"M", "A", "I", "C", "O", "M">>,
     <<"M", "A", "R", "C", "O", "S">>,
     <<"M", "A", "T", "H", "E", "U", "S">>,
     <<"M", "I", "C", "H", "A", "E", "L">>,
     <<"P", "A", "U", "L", "O">>,
     <<"R", "A", "I", "L", "S", "O", "N">>,
     <<"R", "E", "N", "A", "T", "O">>,
     <<"R", "I", "C", "A", "R", "D", "O">>,
     <<"R", "O", "N", "A", "L", "D", "O">>,
     <<"S", "E", "B", "A", "S", "T", "I", "A", "O">>,
     <<"T", "I", "A", "G", "O">>,
     <<"W", "E", "L", "L", "I", "N", "G", "T", "O", "N">>,
     <<"J", "E", "F", "E", "R", "S", "O", "N">>,
     <<"J", "E", "F", "E", "R", "S", "O", "N">>,
     <<"J", "O", "A", "Q", "U", "I", "M">>,
     <<"J", "O", "N", "A", "L", "D", "O">>,
     <<"I", "S", "R", "A", "E", "L">> >>

\* The substitution table of clean_ocr_text, in insertion order: key, value.
corrections ==
  << << <<"U+2014">>, <<" ">> >>, << <<"U+2013">>, <<" ">> >>,
     << <<"|">>, <<" ">> >>,      << <<"\\">>, <<" ">> >>,
     << <<"/">>, <<" ">> >>,      << <<"_">>, <<" ">> >>,
     << <<"U+00BA">>, <<" ">> >>, << <<"U+00AA">>, <<" ">> >>,
     << <<"%">>, <<"A">> >>,      << <<"U+00C3">>, <<"A">> >>,
     << <<"U+00C3", "U+00BA">>, <<"U">> >>,
     << <<"U+00CD">>, <<"I">> >>, << <<"U+00ED">>, <<"i">> >>,
     << <<"U+00E2">>, <<"a">> >>, << <<"U+00F3">>, <<"o">> >>,
     << <<"U+FFFD">>, <<" ">> >>, << <<"\n">>, <<" ">> >> >>

\* [‘’“”´\[\]<>\"*#@~]
ObviousNonText ==
  {"U+2018", "U+2019", "U+201C", "U+201D", "U+00B4",
   "[", "]", "<", ">", "\"", "*", "#", "@", "~"}

\* [-=+~(c)(r)]
SignChars == {"-", "=", "+", "~", "U+00A9", "U+00AE"}

\* unicodedata.normalize('NFKD', c) with the combining marks dropped.
RemoveAccentChar(c) ==
  CASE c \in {"U+00E9"} -> "e"
    [] c \in {"U+00ED"} -> "i"
    [] c \in {"U+00CD"} -> "I"
    [] c \in {"U+00C3"} -> "A"
    [] c \in {"U+00E2", "U+00AA"} -> "a"
    [] c \in {"U+00F3", "U+00BA"} -> "o"
    [] OTHER -> c

_remove_accents(s) == AsTuple([i \in 1..Len(s) |-> RemoveAccentChar(s[i])])

(***************************************************************************)
(* Patterns: the regular expressions of parser.py and the keys of          *)
(* str.replace, each as the length of its match at position i, 0 when it   *)
(* does not match there (no pattern matches the empty string).             *)
(***************************************************************************)
\* (?:[01]?\d|2[0-3]) taking two characters
IsHour2(s, i) ==
  /\ i + 1 <= Len(s)
  /\ \/ s[i] \in {"0", "1"} /\ s[i+1] \in Digits
     \/ s[i] = "2" /\ s[i+1] \in {"0", "1", "2", "3"}

\* (?:[01]?\d|2[0-3]) taking one character
IsHour1(s, i) == i <= Len(s) /\ s[i] \in Digits

\* <sep>[0-5]\d\b at position j
MinutesAt(s, j, seps) ==
  /\ j + 2 <= Len(s)
  /\ s[j] \in seps
  /\ s[j+1] \in {"0", "1", "2", "3", "4", "5"}
  /\ s[j+2] \in Digits
  /\ WordBoundary(s, j + 3)

\* A plausible slip: the ? of [01]?\d left out, an hour of one digit refused.
TimeMatchLen_two_digit_hour(s, i, seps) ==
  IF ~WordBoundary(s, i) THEN 0
  ELSE IF IsHour2(s, i) /\ MinutesAt(s, i + 2, seps) THEN 5
  ELSE 0

\* \b(?:[01]?\d|2[0-3])<sep>[0-5]\d\b
TimeMatchLen(s, i, seps) ==
  IF ~WordBoundary(s, i) THEN 0
  ELSE IF IsHour2(s, i) /\ MinutesAt(s, i + 2, seps) THEN 5
  ELSE IF IsHour1(s, i) /\ MinutesAt(s, i + 1, seps) THEN 4
  ELSE 0

\* the length of the run of characters of `class` that starts at i
RunLength(s, i, class) ==
  Min({j \in i..(Len(s) + 1) : j > Len(s) \/ s[j] \notin class}) - i

\* \b\d{2,}\b
NumMatchLen(s, i) ==
  IF i > 1 /\ IsWordChar(s[i-1]) THEN 0
  ELSE LET r == RunLength(s, i, Digits)
       IN  IF r >= 2 /\ WordBoundary(s, i + r) THEN r ELSE 0

\* \bW\b with re.IGNORECASE, W in capitals
WordMatchLen(s, i, w) ==
  IF /\ WordBoundary(s, i)
     /\ i + Len(w) - 1 <= Len(s)
     /\ \A k \in 1..Len(w) : UpperChar(s[i + k - 1]) = w[k]
     /\ WordBoundary(s, i + Len(w))
  THEN Len(w) ELSE 0

\* \b(?:W1|W2|...)\b with re.IGNORECASE: the first alternative that matches
AltMatchLen(s, i, words) ==
  LET hits == {k \in 1..Len(words) : WordMatchLen(s, i, words[k]) > 0}
  IN  IF hits = {} THEN 0 ELSE Len(words[Min(hits)])

\* The patterns, as values; `most` is the longest match a pattern can have
\* (0: no limit).
TimeVariantPattern == [kind |-> "time", seps |-> {":", "|", "l", "I"}, most |-> 5]

TimePattern == [kind |-> "time", seps |-> {":"}, most |-> 5]

NumberPattern == [kind |-> "num", most |-> 0]

WordsPattern(words) ==
  [kind |-> "words", words |-> words, most |-> Max({Len(words[k]) : k \in 1..Len(words)})]

LiteralPattern(key) == [kind |-> "literal", key |-> key, most |-> Len(key)]

MatchLen(p, s, i) ==
  CASE p.kind = "time"    -> TimeMatchLen(s, i, p.seps)
    [] p.kind = "num"     -> NumMatchLen(s, i)
    [] p.kind = "words"   -> AltMatchLen(s, i, p.words)
    [] p.kind = "literal" -> IF OccursAt(s, p.key, i) THEN Len(p.key) ELSE 0

\* The positions before i from which a match of p can reach i.
Reach(p, s, i) ==
  (IF p.most = 0 \/ i - p.most + 1 < 1 THEN 1 ELSE i - p.most + 1)..(i - 1)

RECURSIVE TakenAt(_, _, _)
\* A scan from the left takes the match at i when no match it took earlier
\* runs over i: re.sub and str.replace take the leftmost matches, none
\* overlapping another.
TakenAt(p, s, i) ==
  /\ MatchLen(p, s, i) > 0
  /\ \A j \in Reach(p, s, i) : ~(MatchLen(p, s, j) > i - j /\ TakenAt(p, s, j))

\* Position i lies inside a match taken at an earlier position.
CoveredAt(p, s, i) ==
  \E j \in Reach(p, s, i) : MatchLen(p, s, j) > i - j /\ TakenAt(p, s, j)

\* re.sub(p, r, s) and s.replace(key, r) for a replacement r of one character
Sub(p, s, r) ==
  Compact([i \in 1..Len(s) |->
    IF CoveredAt(p, s, i) THEN Dropped
    ELSE IF MatchLen(p, s, i) > 0 THEN r
    ELSE s[i]])

\* str.replace(k, v), v of one character
Replace(s, k, v) == Sub(LiteralPattern(k), s, v[1])

\* bool(p.search(s))
Search(p, s) == \E i \in 1..Len(s) : MatchLen(p, s, i) > 0

(***************************************************************************)
(* clean_ocr_text and strip_times_and_roles.                               *)
(***************************************************************************)
\* out.replace(k, v) for the k-th entry of corrections
ReplaceEntry(out, k) == Replace(out, corrections[k][1], corrections[k][2])

\* for k, v in corrections.items(): out = out.replace(k, v): the 17 entries
\* in the order of the table, the first innermost.
ApplyCorrections(s) ==
  ByValue(
    {ReplaceEntry(out, 17) : out \in
    {ReplaceEntry(out, 16) : out \in
    {ReplaceEntry(out, 15) : out \in
    {ReplaceEntry(out, 14) : out \in
    {ReplaceEntry(out, 13) : out \in
    {ReplaceEntry(out, 12) : out \in
    {ReplaceEntry(out, 11) : out \in
    {ReplaceEntry(out, 10) : out \in
    {ReplaceEntry(out, 9) : out \in
    {ReplaceEntry(out, 8) : out \in
    {ReplaceEntry(out, 7) : out \in
    {ReplaceEntry(out, 6) : out \in
    {ReplaceEntry(out, 5) : out \in
    {ReplaceEntry(out, 4) : out \in
    {ReplaceEntry(out, 3) : out \in
    {ReplaceEntry(out, 2) : out \in
    {ReplaceEntry(s, 1)}}}}}}}}}}}}}}}}})

\* re.sub(r'[^\w\s]', ' ', s)
SubNonWord(s) ==
  AsTuple([i \in 1..Len(s) |-> IF IsWordChar(s[i]) \/ IsSpace(s[i]) THEN s[i] ELSE " "])

\* A plausible slip: white space collapsed before the symbols are blanked.
clean_ocr_text_reordered(s) ==
  IF s = <<>> THEN s
  ELSE ByValue(
    {_remove_accents(out) : out \in
    {SubNonWord(out) : out \in
    {CollapseSpaces(out) : out \in
    {SubClass(out, SignChars) : out \in
    {SubClass(out, ObviousNonText) : out \in
    {ApplyCorrections(s)}}}}}})

clean_ocr_text(s) ==
  IF s = <<>> THEN s
  ELSE ByValue(
    {_remove_accents(out) : out \in
    {CollapseSpaces(out) : out \in
    {SubNonWord(out) : out \in
    {SubClass(out, SignChars) : out \in
    {SubClass(out, ObviousNonText) : out \in
    {ApplyCorrections(s)}}}}}})

\* re.sub(rf'\b{r}\b', ' ', line, flags=re.IGNORECASE) for the k-th role
StripRole(line, k) == Sub(WordsPattern(<<COMMON_ROLES[k]>>), line, " ")

\* for r in COMMON_ROLES: line = re.sub(...): the 10 roles in the order of the
\* list, the first innermost.
StripRoles(line) ==
  ByValue(
    {StripRole(ln, 10) : ln \in
    {StripRole(ln, 9) : ln \in
    {StripRole(ln, 8) : ln \in
    {StripRole(ln, 7) : ln \in
    {StripRole(ln, 6) : ln \in
    {StripRole(ln, 5) : ln \in
    {StripRole(ln, 4) : ln \in
    {StripRole(ln, 3) : ln \in
    {StripRole(ln, 2) : ln \in
    {StripRole(line, 1)}}}}}}}}}})

\* E|DE|DA|DO|DOS|DAS|O|A
Connectives ==
  << <<"E">>, <<"D", "E">>, <<"D", "A">>, <<"D", "O">>, <<"D", "O", "S">>,
     <<"D", "A", "S">>, <<"O">>, <<"A">> >>

strip_times_and_roles(line) ==
  IF line = <<>> THEN line
  ELSE ByValue(
    {CollapseSpaces(ln) : ln \in
    {Sub(WordsPattern(Connectives), ln, " ") : ln \in
    {StripRoles(ln) : ln \in
    {Sub(NumberPattern, ln, " ") : ln \in
    {Sub(TimePattern, ln, " ") : ln \in
    {Sub(TimeVariantPattern, line, " ")}}}}}})

(***************************************************************************)
(* split_joined_name and correct_name.                                     *)
(***************************************************************************)
\* for fn2 in COMMON_FIRST_NAMES: if rest.startswith(fn2): the index of the
\* first such entry, 0 when the loop ends without one
FirstNameAt(rest) ==
  LET found == {k \in 1..Len(COMMON_FIRST_NAMES) : StartsWith(rest, COMMON_FIRST_NAMES[k])}
  IN  IF found = {} THEN 0 ELSE Min(found)

\* The iteration of the loop over COMMON_FIRST_NAMES at entry k returns: the
\* entry starts the span, and what follows it starts with an entry or has 3
\* to 12 characters.
ReturnsAt(up, k) ==
  /\ StartsWith(up, COMMON_FIRST_NAMES[k])
  /\ \/ FirstNameAt(Tail_from(up, Len(COMMON_FIRST_NAMES[k]) + 1)) > 0
     \/ Len(up) - Len(COMMON_FIRST_NAMES[k]) \in 3..12

\* The loop over COMMON_FIRST_NAMES: <<result>> of the first iteration that
\* returns, <<>> when the loop ends without returning.
DictSplit(up) ==
  LET returning == {k \in 1..Len(COMMON_FIRST_NAMES) : ReturnsAt(up, k)}
  IN  IF returning = {} THEN <<>>
      ELSE LET fn   == COMMON_FIRST_NAMES[Min(returning)]
               rest == Tail_from(up, Len(fn) + 1)
               k2   == FirstNameAt(rest)
           IN  IF k2 > 0
                 THEN << Title(fn \o <<" ">> \o COMMON_FIRST_NAMES[k2]) >>
                 ELSE << Title(fn \o <<" ">> \o rest) >>

\* re.match(r'([A-Z]{3,})([A-Z]{3,})', up): the first group is greedy and
\* leaves the second its three letters. <<result>>, or <<>> when no match.
GenericSplit(up) ==
  LET n == RunLength(up, 1, UpperSet)
  IN  IF n >= 6
        THEN << Title(SubSeq(up, 1, n - 3) \o <<" ">> \o SubSeq(up, n - 2, n)) >>
        ELSE <<>>

split_joined_name(name) ==
  IF name = <<>> THEN name
  ELSE IF Contains(name, <<" ">>) /\ Len(Split(name)) >= 2 THEN name
  ELSE LET up == Upper(name)
           d  == DictSplit(up)
           g  == GenericSplit(up)
       IN  IF d # <<>> THEN d[1]
           ELSE IF g # <<>> THEN g[1]
           ELSE Title(name)

Unknown == <<"U", "n", "k", "n", "o", "w", "n">>

\* re.sub(r'[^A-Za-z\s]', ' ', s)
SubNonLetter(s) ==
  AsTuple([i \in 1..Len(s) |-> IF s[i] \in AsciiLetters \/ IsSpace(s[i]) THEN s[i] ELSE " "])

\* [p.title() for p in parts]
TitleEach(parts) == AsTuple([i \in 1..Len(parts) |-> Title(parts[i])])

\* A plausible slip: the limit of 4 tokens left out.
correct_name_unlimited(raw) ==
  IF raw = <<>> THEN Unknown
  ELSE ByValue(
    {IF s = <<>> THEN Unknown
     ELSE JoinSp(TitleEach(Split(split_joined_name(s)))) : s \in
    {CollapseSpaces(s) : s \in
    {SubNonLetter(s) : s \in
    {strip_times_and_roles(s) : s \in
    {clean_ocr_text(raw)}}}}})

correct_name(raw) ==
  IF raw = <<>> THEN Unknown
  ELSE ByValue(
    {IF s = <<>> THEN Unknown
     ELSE LET parts == Split(split_joined_name(s))
              kept  == IF Len(parts) > 4 THEN SubSeq(parts, 1, 4) ELSE parts
          IN  JoinSp(TitleEach(kept)) : s \in
    {CollapseSpaces(s) : s \in
    {SubNonLetter(s) : s \in
    {strip_times_and_roles(s) : s \in
    {clean_ocr_text(raw)}}}}})

(***************************************************************************)
(* matcher.py: match_to_roster.  rapidfuzz is not part of the repository:  *)
(* the scores fuzz.WRatio gives the roster entries are an input, `scores`, *)
(* one per roster entry, on the library's 0..100 scale.                    *)
(***************************************************************************)
\* Optional values: None, or the value wrapped.
None == <<>>

Some(x) == <<x>>

RECURSIVE BestIndex(_, _, _)
\* process.extractOne: the entry with the highest score, the earliest of
\* them when several share it. `best` is the best index among 1..k-1.
BestIndex(scores, k, best) ==
  IF k > Len(scores) THEN best
  ELSE IF best = 0 \/ scores[k] > scores[best] THEN BestIndex(scores, k + 1, k)
  ELSE BestIndex(scores, k + 1, best)

\* A plausible slip: the boundary made exclusive.
match_to_roster_strict(name, roster, threshold, has_rapidfuzz, scores) ==
  IF name = <<>> \/ roster = <<>> THEN <<None, None>>
  ELSE IF ~has_rapidfuzz THEN <<None, None>>
  ELSE LET best == BestIndex(scores, 1, 0) IN
       IF best = 0 THEN <<None, None>>
       ELSE IF scores[best] > threshold THEN <<Some(roster[best]), Some(scores[best])>>
       ELSE <<None, Some(scores[best])>>

\* The pair (canonical_name, score).
match_to_roster(name, roster, threshold, has_rapidfuzz, scores) ==
  IF name = <<>> \/ roster = <<>> THEN <<None, None>>
  ELSE IF ~has_rapidfuzz THEN <<None, None>>
  ELSE LET best == BestIndex(scores, 1, 0) IN
       IF best = 0 THEN <<None, None>>
       ELSE IF scores[best] >= threshold THEN <<Some(roster[best]), Some(scores[best])>>
       ELSE <<None, Some(scores[best])>>

(***************************************************************************)
(* parse_attendance_data.                                                  *)
(***************************************************************************)
\* absent_tokens = re.compile(r'\b(F|FALTA|AUSENTE)\b', re.IGNORECASE)
AbsentPattern ==
  WordsPattern(<< <<"F">>, <<"F", "A", "L", "T", "A">>,
                  <<"A", "U", "S", "E", "N", "T", "E">> >>)

\* The positions of the line breaks of t.
LineBreaks(t) == {i \in 1..Len(t) : t[i] = "\n"}

\* The k-th line break of t, 0 for k = 0.
NthBreak(t, k) ==
  IF k = 0 THEN 0
  ELSE CHOOSE b \in LineBreaks(t) : Cardinality({c \in LineBreaks(t) : c <= b}) = k

\* str.splitlines(): the text cut at its line breaks; what follows the last
\* break is a line only when it is not empty.
SplitLines(t) ==
  LET n       == Cardinality(LineBreaks(t))
      closed  == AsTuple([k \in 1..n |->
                            SubSeq(t, NthBreak(t, k - 1) + 1, NthBreak(t, k) - 1)])
      lastOne == SubSeq(t, NthBreak(t, n) + 1, Len(t))
  IN  IF lastOne = <<>> THEN closed ELSE Append(closed, lastOne)

\* ln.strip() is not empty
NonBlank(ln) == ln # <<>>

\* [ln.strip() for ln in lns if ln.strip()]
StripNonBlank(lns) ==
  SelectSeq(AsTuple([k \in 1..Len(lns) |-> Strip(lns[k])]), NonBlank)

StrippedLines(t) == StripNonBlank(SplitLines(t))

\* A plausible slip: the footer line kept.
IterLines_keep_footer(lns) == IF Len(lns) > 4 THEN SubSeq(lns, 3, Len(lns)) ELSE lns

\* lines[2:-1] if len(lines) > 4 else lines
IterLines(lns) == IF Len(lns) > 4 THEN SubSeq(lns, 3, Len(lns) - 1) ELSE lns

\* A plausible slip: the absence mark tested first.
StatusOf_absent_first(has_time, has_absent) ==
  IF has_absent THEN "absent" ELSE IF has_time THEN "present" ELSE "unknown"

\* The status of a line from its two flags.
StatusOf(has_time, has_absent) ==
  IF has_time THEN "present" ELSE IF has_absent THEN "absent" ELSE "unknown"

\* The record the loop body appends for line ln, given the matcher's answer.
RecordOf(ln, m) ==
  LET has_time   == Search(TimePattern, ln)
      has_absent == Search(AbsentPattern, ln)
  IN  ByValue(
    {[original_line   |-> ln,
      cleaned_name    |-> cleaned_no_meta,
      corrected_name  |-> correct_name(cleaned_no_meta),
      canonical_name  |-> m[1],
      match_score     |-> m[2],
      status          |-> StatusOf(has_time, has_absent),
      has_time        |-> has_time,
      has_absent_mark |-> has_absent] : cleaned_no_meta \in
    {strip_times_and_roles(cleaned) : cleaned \in
    {clean_ocr_text(ln)}}})

VARIABLES
  text,            \* the argument of parse_attendance_data
  ROSTER,          \* parser.ROSTER, loaded when the module is imported
  HAS_RAPIDFUZZ,   \* matcher.HAS_RAPIDFUZZ
  pc,              \* where the call is
  lines,           \* the locals of parse_attendance_data
  iter_lines,
  idx,             \* the position of the for loop in iter_lines, from 1
  present,
  absent,
  details,
  result,          \* the value returned, None before the return
  arg,             \* the argument of a direct call of one of the helpers
  ret              \* what a direct call returned

vars ==
  <<text, ROSTER, HAS_RAPIDFUZZ, pc, lines, iter_lines, idx, present, absent,
    details, result, arg, ret>>

(***************************************************************************)
(* The inputs.                                                             *)
(***************************************************************************)
ScenarioB ==
  <<"A", "L", "D", "E", "N", "I", "R", "L", "U", "I", "Z", " ", "U+2014", " ", "U+2014", " ", "G", "A", "M", "B", "I", "A", "R", "R", "A", " ", "U+2014", " ", "[", "P", "E", "D", "R", "E", "I", "R", "O", " ", "|", " ", "6", "3", "5", " ", "1", "1", "3", "3", " ", "/", " ", "1", "3", ":", "0", "2", "/", " ", "1", "7", "0">>

\* Pieces of an OCR text, whole lines each, as the text holds them (before
\* strip()): scenario B; a name and an absence word; an absence letter and
\* a time; a footer followed by a line of white space.
TextPieces ==
  << ScenarioB,
     <<" ", "J", "O", "S", "E", " ", "F", "A", "L", "T", "A", " ", "\n", " ", "\t">>,
     <<"A", "N", "A", " ", "F", " ", "7", ":", "3", "0", "\n", "T", "O", "T", "A", "L">> >>

\* The most pieces a text has.
MaxPieces == 4

RECURSIVE JoinLines(_)
\* The text whose lines are lns.
JoinLines(lns) ==
  IF lns = <<>> THEN <<>>
  ELSE IF Len(lns) = 1 THEN lns[1]
  ELSE lns[1] \o <<"\n">> \o JoinLines(Tail(lns))

RECURSIVE SeqsUpTo(_, _)
\* The sequences of at most n elements of S.
SeqsUpTo(S, n) ==
  IF n = 0 THEN {<<>>}
  ELSE LET shorter == SeqsUpTo(S, n - 1)
       IN  shorter \cup {Append(q, x) : q \in shorter, x \in S}

Texts == {JoinLines(q) : q \in SeqsUpTo(Range(TextPieces), MaxPieces)}

\* The lines such a text has once stripped.
PossibleLines == UNION {Range(StrippedLines(piece)) : piece \in Range(TextPieces)}

RosterEntry == <<"A", "l", "d", "e", "n", "i", "r", " ", "L", "u", "i", "z">>

Rosters == {<<>>, <<RosterEntry>>}

\* Scores the scorer may give an entry, around the threshold of the parser.
ScoreSamples == {84, 85}

\* One score per roster entry.
ScoresFor(roster) == [1..Len(roster) -> ScoreSamples]

Idle == "idle"

(***************************************************************************)
(* parse_attendance_data as a state machine: the call, one step per        *)
(* iteration of the loop over iter_lines, the return.                      *)
(***************************************************************************)
Init ==
  /\ text \in Texts
  /\ ROSTER \in Rosters
  /\ HAS_RAPIDFUZZ \in BOOLEAN
  /\ pc = "call"
  /\ lines = <<>>
  /\ iter_lines = <<>>
  /\ idx = 1
  /\ present = 0
  /\ absent = 0
  /\ details = <<>>
  /\ result = None
  /\ arg = Idle
  /\ ret = Idle

\* Entry: the empty text returns at once; otherwise the locals are set up.
ParseStart ==
  /\ pc = "call"
  /\ IF text = <<>>
       THEN /\ result' = Some([present |-> 0, absent |-> 0, total_lines |-> 0,
                               details |-> <<>>])
            /\ pc' = "done"
            /\ UNCHANGED <<lines, iter_lines>>
       ELSE /\ lines' = StrippedLines(text)
            /\ iter_lines' = IterLines(lines')
            /\ pc' = "loop"
            /\ UNCHANGED result
  /\ idx' = 1
  /\ present' = 0
  /\ absent' = 0
  /\ details' = <<>>
  /\ UNCHANGED <<text, ROSTER, HAS_RAPIDFUZZ, arg, ret>>

\* The matcher's answer inside the loop: asked only when ROSTER is not empty.
MatchInLoop(corrected, scores) ==
  IF ROSTER # <<>>
    THEN match_to_roster(corrected, ROSTER, 85, HAS_RAPIDFUZZ, scores)
    ELSE <<None, None>>

\* The loop body is a function of the line alone, but for the matcher's
\* answer: its records for the lines a text can hold, computed once.
LineRecord == [ln \in PossibleLines |-> RecordOf(ln, <<None, None>>)]

\* The record of a line with the answer of the matcher in it.
MatchedRecord(r0, scores) ==
  [r0 EXCEPT !.canonical_name = MatchInLoop(r0.corrected_name, scores)[1],
             !.match_score = MatchInLoop(r0.corrected_name, scores)[2]]

\* A plausible slip: `if has_absent` in place of `elif has_absent`, so that a
\* line with a time and an absence mark is counted twice.
ParseLine_counted_twice ==
  /\ pc = "loop"
  /\ idx <= Len(iter_lines)
  /\ \E scores \in ScoresFor(ROSTER) :
       \E rec \in {MatchedRecord(LineRecord[iter_lines[idx]], scores)} :
           /\ details' = Append(details, rec)
           /\ present' = IF rec.has_time THEN present + 1 ELSE present
           /\ absent' = IF rec.has_absent_mark THEN absent + 1 ELSE absent
  /\ idx' = idx + 1
  /\ UNCHANGED <<text, ROSTER, HAS_RAPIDFUZZ, pc, lines, iter_lines, result, arg, ret>>

\* A plausible slip: a line of fewer than 4 white-space separated tokens
\* skipped, with no record and no count.
ParseLine_skips_short ==
  /\ pc = "loop"
  /\ idx <= Len(iter_lines)
  /\ \E scores \in ScoresFor(ROSTER) :
       \E rec \in {MatchedRecord(LineRecord[iter_lines[idx]], scores)} :
           IF Len(Split(iter_lines[idx])) < 4
           THEN UNCHANGED <<details, present, absent>>
           ELSE /\ details' = Append(details, rec)
                /\ present' = IF rec.status = "present" THEN present + 1 ELSE present
                /\ absent' = IF rec.status = "absent" THEN absent + 1 ELSE absent
  /\ idx' = idx + 1
  /\ UNCHANGED <<text, ROSTER, HAS_RAPIDFUZZ, pc, lines, iter_lines, result, arg, ret>>

\* One iteration of the loop body.
ParseLine ==
  /\ pc = "loop"
  /\ idx <= Len(iter_lines)
  /\ \E scores \in ScoresFor(ROSTER) :
       \E rec \in {MatchedRecord(LineRecord[iter_lines[idx]], scores)} :
           /\ details' = Append(details, rec)
           /\ present' = IF rec.status = "present" THEN present + 1 ELSE present
           /\ absent' = IF rec.status = "absent" THEN absent + 1 ELSE absent
  /\ idx' = idx + 1
  /\ UNCHANGED <<text, ROSTER, HAS_RAPIDFUZZ, pc, lines, iter_lines, result, arg, ret>>

\* The loop is over: the dict is returned.
ParseReturn ==
  /\ pc = "loop"
  /\ idx > Len(iter_lines)
  /\ result' = Some([present |-> present, absent |-> absent,
                     total_lines |-> Len(lines), details |-> details])
  /\ pc' = "done"
  /\ UNCHANGED <<text, ROSTER, HAS_RAPIDFUZZ, lines, iter_lines, idx, present, absent,
                 details, arg, ret>>

Next == ParseStart \/ ParseLine \/ ParseReturn

Spec == Init /\ [][Next]_vars

(***************************************************************************)
(* Properties of parse_attendance_data, checked under Spec.                *)
(***************************************************************************)
\* The records of a list whose status is st.
CountStatus(d, st) == Cardinality({k \in 1..Len(d) : d[k].status = st})

\* What holds of the counters and the records, in the locals and in a result.
Consistent(p, a, d, total) ==
  /\ p >= 0
  /\ a >= 0
  /\ p + a + CountStatus(d, "unknown") = Len(d)
  /\ Len(d) <= total

\* C1: after every iteration of the loop and in the result, present + absent +
\* the number of records of status unknown is the number of records, neither
\* counter is negative, and there are at most total_lines records.
C1_CountersConsistent ==
  /\ pc = "loop" => Consistent(present, absent, details, Len(lines))
  /\ result # None =>
       Consistent(result[1].present, result[1].absent, result[1].details,
                  result[1].total_lines)

\* A result with a present, an absent and an unknown record.
C1_Witness ==
  /\ result # None
  /\ result[1].present > 0
  /\ result[1].absent > 0
  /\ CountStatus(result[1].details, "unknown") > 0

\* The original_line values of a list of records, in order.
OriginalLines(d) == AsTuple([k \in 1..Len(d) |-> d[k].original_line])

\* C2: the result holds one record per surviving line, in input order: with L
\* the non-blank stripped lines of the text, the original lines of details are
\* L without its first two and its last element when L has more than 4
\* elements, L itself otherwise; total_lines is the length of L.
C2_OneRecordPerSurvivingLine ==
  result # None =>
    LET L == StrippedLines(text) IN
    /\ result[1].total_lines = Len(L)
    /\ OriginalLines(result[1].details) =
         (IF Len(L) > 4 THEN SubSeq(L, 3, Len(L) - 1) ELSE L)

\* A result for a text of more than 4 lines, and (with a piece of two lines)
\* one whose lines are not all alike.
C2_Witness ==
  /\ result # None
  /\ Len(StrippedLines(text)) > 4
  /\ Len(result[1].details) >= 2
  /\ result[1].details[1].original_line # result[1].details[2].original_line

\* A time of day written H:MM or HH:MM: the hour at most 23, the minutes at
\* most 59.
DigitSeq == <<"0", "1", "2", "3", "4", "5", "6", "7", "8", "9">>

DigitVal(c) == (CHOOSE i \in 1..10 : DigitSeq[i] = c) - 1

IsClockText(tok) ==
  /\ Len(tok) \in {4, 5}
  /\ \A k \in 1..Len(tok) : (k = Len(tok) - 2) \/ tok[k] \in Digits
  /\ tok[Len(tok) - 2] = ":"
  /\ 10 * DigitVal(tok[Len(tok) - 1]) + DigitVal(tok[Len(tok)]) <= 59
  /\ (IF Len(tok) = 5 THEN 10 * DigitVal(tok[1]) + DigitVal(tok[2]) ELSE DigitVal(tok[1])) <= 23

\* A time token of the line: a time of day that no letter, digit or
\* underscore touches.
ClockTokenAt(ln, i, n) ==
  /\ i + n - 1 <= Len(ln)
  /\ IsClockText(SubSeq(ln, i, i + n - 1))
  /\ i = 1 \/ ~IsWordChar(ln[i-1])
  /\ i + n - 1 = Len(ln) \/ ~IsWordChar(ln[i+n])

HasClockToken(ln) == \E i \in 1..Len(ln), n \in {4, 5} : ClockTokenAt(ln, i, n)

AbsenceWords ==
  { <<"F">>, <<"F", "A", "L", "T", "A">>, <<"A", "U", "S", "E", "N", "T", "E">> }

\* An absence word of the line: a whole word that is F, FALTA or AUSENTE in
\* any case.
HasAbsenceWord(ln) ==
  \E i \in 1..Len(ln), n \in {Len(w) : w \in AbsenceWords} :
    /\ i + n - 1 <= Len(ln)
    /\ Upper(SubSeq(ln, i, i + n - 1)) \in AbsenceWords
    /\ i = 1 \/ ~IsWordChar(ln[i-1])
    /\ i + n - 1 = Len(ln) \/ ~IsWordChar(ln[i+n])

\* C3: a record is present iff a time token was found, absent iff an absence
\* token was found and no time token, unknown otherwise; a line with both a
\* time token and an absence word is present, and counts as present only.
C3_StatusPrecedence ==
  /\ \A k \in 1..Len(details) :
       LET r == details[k] IN
       /\ r.status \in {"present", "absent", "unknown"}
       /\ r.status = "present" <=> r.has_time
       /\ r.status = "absent" <=> (r.has_absent_mark /\ ~r.has_time)
       /\ (HasClockToken(r.original_line) /\ HasAbsenceWord(r.original_line))
            => r.status = "present"
  /\ present = CountStatus(details, "present")
  /\ absent = CountStatus(details, "absent")

\* A record of a line with a time token and an absence word.
C3_Witness ==
  \E k \in 1..Len(details) :
    /\ details[k].has_time
    /\ details[k].has_absent_mark
    /\ HasClockToken(details[k].original_line)
    /\ HasAbsenceWord(details[k].original_line)
    /\ details[k].status = "present"
    /\ present = 1
    /\ absent = 0

\* The white-space separated tokens of a line.
TokenCount(ln) == Len(Split(ln))

\* The loop is at a line of fewer than 4 tokens.
AtShortLine ==
  /\ pc = "loop"
  /\ idx <= Len(iter_lines)
  /\ TokenCount(iter_lines[idx]) < 4

\* C4 as stated: a surviving line of fewer than 4 tokens is discarded: no
\* record, and neither counter changes.
C4_ShortLineDiscarded ==
  [][AtShortLine => (details' = details /\ present' = present /\ absent' = absent)]_vars

\* C4 as amended: a surviving line of fewer than 4 tokens is not discarded: it
\* is classified like any other line, yields exactly one record, and moves the
\* counter of its status.
C4_ShortLineRecorded ==
  [][AtShortLine =>
       /\ Len(details') = Len(details) + 1
       /\ SubSeq(details', 1, Len(details)) = details
       /\ details'[Len(details')].original_line = iter_lines[idx]
       /\ details'[Len(details')].status =
            (IF HasClockToken(iter_lines[idx]) THEN "present"
             ELSE IF HasAbsenceWord(iter_lines[idx]) THEN "absent" ELSE "unknown")
       /\ present' = present + (IF details'[Len(details')].status = "present" THEN 1 ELSE 0)
       /\ absent' = absent + (IF details'[Len(details')].status = "absent" THEN 1 ELSE 0)
  ]_vars

\* A line of two tokens has its record and has moved the absent counter.
C4_Witness ==
  \E k \in 1..Len(details) :
    /\ TokenCount(details[k].original_line) < 4
    /\ details[k].status = "absent"
    /\ absent > 0

AldenirLuiz == <<"A", "l", "d", "e", "n", "i", "r", " ", "L", "u", "i", "z">>

Pedreiro == <<"P", "E", "D", "R", "E", "I", "R", "O">>

\* C5: the record of scenario B has a corrected name that holds "Aldenir Luiz"
\* and not the role word, and is present.
C5_ScenarioB ==
  \A k \in 1..Len(details) :
    details[k].original_line = ScenarioB =>
      /\ Contains(details[k].corrected_name, AldenirLuiz)
      /\ ~Contains(Upper(details[k].corrected_name), Pedreiro)
      /\ details[k].status = "present"

\* The punch slots a record carries: its field of that name, if it has one.
PunchSlots(r) == IF "punches" \in DOMAIN r THEN r.punches ELSE <<>>

\* Where the time tokens of a line start, and the tokens from left to right.
ClockStarts(ln) == {i \in 1..Len(ln) : \E n \in {4, 5} : ClockTokenAt(ln, i, n)}

ClockTokens(ln) ==
  AsTuple([k \in 1..Cardinality(ClockStarts(ln)) |->
    LET i == Nth(ClockStarts(ln), k)
        n == CHOOSE n \in {4, 5} : ClockTokenAt(ln, i, n)
    IN  SubSeq(ln, i, i + n - 1)])

RecordFields ==
  {"original_line", "cleaned_name", "corrected_name", "canonical_name",
   "match_score", "status", "has_time", "has_absent_mark"}

NoParse ==
  /\ text = <<>>
  /\ ROSTER = <<>>
  /\ lines = <<>>
  /\ iter_lines = <<>>
  /\ idx = 1
  /\ present = 0
  /\ absent = 0
  /\ details = <<>>

ParseVars == <<text, ROSTER, lines, iter_lines, idx, present, absent, details>>

\* The strings of at most n characters of `alphabet`.
Strings(alphabet, n) == SeqsUpTo(alphabet, n)

\* ASCII characters that reach every step of clean_ocr_text: a letter, a
\* digit, white space, keys of the substitution table, symbols.
CleanAlphabet == {"a", "1", " ", "\n", "%", "_", ":", "*"}

MaxCleanLen == 3

CleanInit ==
  /\ NoParse
  /\ HAS_RAPIDFUZZ = FALSE
  /\ pc = "clean_ocr_text"
  /\ arg \in Strings(CleanAlphabet, MaxCleanLen)
  /\ ret = Idle
  /\ result = None

\* ret = clean_ocr_text(arg)
CleanCall ==
  /\ pc = "clean_ocr_text"
  /\ ret' = clean_ocr_text(arg)
  /\ pc' = "cleaned"
  /\ UNCHANGED <<ParseVars, HAS_RAPIDFUZZ, arg, result>>

\* result = clean_ocr_text(ret)
CleanAgain ==
  /\ pc = "cleaned"
  /\ result' = Some(clean_ocr_text(ret))
  /\ pc' = "cleaned again"
  /\ UNCHANGED <<ParseVars, HAS_RAPIDFUZZ, arg, ret>>

CleanNext == CleanCall \/ CleanAgain

SpecClean == CleanInit /\ [][CleanNext]_vars

\* C9: clean_ocr_text is idempotent on ASCII text, the empty string included:
\* cleaning the cleaned string gives the cleaned string.
C9_CleanIdempotent == pc = "cleaned again" => result[1] = ret

\* A string the first cleaning changed, by more than trimming it, cleaned again.
C9_Witness ==
  /\ pc = "cleaned again"
  /\ ret # <<>>
  /\ Len(ret) = Len(arg)
  /\ ret # arg

\* Pieces that reach every step of correct_name: a lower-case name, a role
\* with a time, a glued name.
NamePieces ==
  { <<"a", "n", "a">>,
    <<"P", "I", "N", "T", "O", "R", " ", "7", ":", "3", "0">>,
    <<"J", "O", "S", "E", "L", "U", "I", "Z">> }

\* The most pieces an argument of correct_name is made of.
MaxNamePieces == 5

NameInputs == {JoinSp(q) : q \in SeqsUpTo(NamePieces, MaxNamePieces)}

NameInit ==
  /\ NoParse
  /\ HAS_RAPIDFUZZ = FALSE
  /\ pc = "correct_name"
  /\ arg \in NameInputs
  /\ ret = Idle
  /\ result = None

\* ret = correct_name(arg)
NameCall ==
  /\ pc = "correct_name"
  /\ ret' = correct_name(arg)
  /\ pc' = "corrected"
  /\ UNCHANGED <<ParseVars, HAS_RAPIDFUZZ, arg, result>>

NameNext == NameCall

SpecName == NameInit /\ [][NameNext]_vars

\* A token with an upper-case first letter and lower-case letters after it.
IsCapitalized(tok) ==
  /\ tok # <<>>
  /\ tok[1] \in UpperSet
  /\ \A k \in 2..Len(tok) : tok[k] \in LowerSet

\* Letters of the argument that are not part of a time, a number, a role or a
\* connective: what is left of it after cleaning and stripping.
NameBearing(raw) ==
  \E s \in {SubNonLetter(ln) : ln \in
            {strip_times_and_roles(out) : out \in {clean_ocr_text(raw)}}} :
    \E i \in 1..Len(s) : s[i] \in AsciiLetters

\* C6: correct_name returns a name of 1 to 4 tokens separated by single
\* spaces, each with an upper-case first letter and lower-case letters after
\* it; for the empty string, and when nothing name-bearing survives cleaning
\* and stripping, it returns "Unknown".
C6_CorrectNameShape ==
  pc = "corrected" =>
    /\ Len(Split(ret)) \in 1..4
    /\ \A k \in 1..Len(Split(ret)) : IsCapitalized(Split(ret)[k])
    /\ ret = JoinSp(Split(ret))
    /\ (arg = <<>> \/ ~NameBearing(arg)) => ret = Unknown

\* More than 4 name tokens in, 4 out.
C6_Witness ==
  /\ pc = "corrected"
  /\ Len(Split(arg)) > 4
  /\ Len(Split(ret)) = 4
  /\ ret # Unknown

\* Pieces of a glued span: two dictionary names, letters too few for a name,
\* a name in lower case, letters that no dictionary name starts.
SplitPieces ==
  { <<"J", "O", "S", "E">>,
    <<"A", "N", "T", "O", "N", "I", "O">>,
    <<"A", "B">>,
    <<"l", "u", "i", "z">>,
    <<"X", "Y", "Z", "W", "K", "Q", "V">> }

\* The most pieces a span is made of.
MaxParts == 3

RECURSIVE Concat(_)
\* The pieces one after the other, nothing between them.
Concat(parts) == IF parts = <<>> THEN <<>> ELSE parts[1] \o Concat(Tail(parts))

SplitInputs == {Concat(q) : q \in SeqsUpTo(SplitPieces, MaxParts)}

SplitInit ==
  /\ NoParse
  /\ HAS_RAPIDFUZZ = FALSE
  /\ pc = "split_joined_name"
  /\ arg \in SplitInputs
  /\ ret = Idle
  /\ result = None

\* ret = split_joined_name(arg)
SplitCall ==
  /\ pc = "split_joined_name"
  /\ ret' = split_joined_name(arg)
  /\ pc' = "split"
  /\ UNCHANGED <<ParseVars, HAS_RAPIDFUZZ, arg, result>>

SplitNext == SplitCall

SpecSplit == SplitInit /\ [][SplitNext]_vars

\* The dictionary names that s starts with, and the longest of them.
DictPrefixes(s) == {fn \in Range(COMMON_FIRST_NAMES) : StartsWith(s, fn)}

LongestPrefix(s) ==
  CHOOSE fn \in DictPrefixes(s) : \A other \in DictPrefixes(s) : Len(other) <= Len(fn)

\* s is the span written in one word, in whatever case.
Unsplit(s, span) == Upper(s) = Upper(span)

\* s is the span cut in two runs of at least 3 letters.
GenericallySplit(s, span) ==
  \E k \in 3..(Len(span) - 3) :
    /\ Upper(s) = Upper(SubSeq(span, 1, k)) \o <<" ">> \o Upper(SubSeq(span, k + 1, Len(span)))
    /\ \A j \in 1..Len(span) : span[j] \in AsciiLetters

\* C10: for a span of one token, split_joined_name takes the longest
\* dictionary name that starts the upper-cased span; if a dictionary name
\* starts the remainder the result is the two names, else if the remainder has
\* 3 to 12 letters the result is the name and the remainder, else the span is
\* returned unsplit; the split in two runs of at least 3 letters is made only
\* when no dictionary name starts the span.
C10_SplitRules ==
  (pc = "split" /\ arg # <<>>) =>
    LET up == Upper(arg) IN
    IF DictPrefixes(up) # {}
      THEN LET fn   == LongestPrefix(up)
               rest == Tail_from(up, Len(fn) + 1)
           IN  IF DictPrefixes(rest) # {}
                 THEN \E fn2 \in DictPrefixes(rest) : Upper(ret) = fn \o <<" ">> \o fn2
               ELSE IF 3 <= Len(rest) /\ Len(rest) <= 12
                 THEN Upper(ret) = fn \o <<" ">> \o rest
               ELSE Unsplit(ret, arg)
      ELSE GenericallySplit(ret, arg) \/ Unsplit(ret, arg)

\* Names, each with the score fuzz.WRatio gives it, and thresholds, with
\* scores below, at and above the threshold the parser passes.
MatchNames == { <<>>, <<"A", "n", "a">> }

RosterNames == { <<"A", "n", "a">>, <<"B", "i", "a">> }

\* The most entries a roster has.
MaxRoster == 2

MatchRosters == SeqsUpTo(RosterNames, MaxRoster)

MatchScores == {84, 85, 86}

MatchThresholds == {85, 86}

MatchArgs ==
  UNION { [name : MatchNames, roster : {r}, threshold : MatchThresholds,
           scores : [1..Len(r) -> MatchScores]] : r \in MatchRosters }

MatchInit ==
  /\ NoParse
  /\ HAS_RAPIDFUZZ \in BOOLEAN
  /\ pc = "match_to_roster"
  /\ arg \in MatchArgs
  /\ ret = Idle
  /\ result = None

\* ret = match_to_roster(name, roster, threshold)
MatchCall ==
  /\ pc = "match_to_roster"
  /\ ret' = match_to_roster(arg.name, arg.roster, arg.threshold, HAS_RAPIDFUZZ, arg.scores)
  /\ pc' = "matched"
  /\ UNCHANGED <<ParseVars, HAS_RAPIDFUZZ, arg, result>>

MatchNext == MatchCall

SpecMatch == MatchInit /\ [][MatchNext]_vars

\* The highest score of a roster that is not empty, and the entries that
\* have it.
BestScore(scores) == CHOOSE x \in Range(scores) : \A y \in Range(scores) : y <= x

BestEntries(roster, scores) == {roster[k] : k \in {j \in 1..Len(roster) : scores[j] = BestScore(scores)}}

\* What C7 says is returned once name and roster are not empty.
ScoredAnswer(a, r) ==
  /\ r[2] = Some(BestScore(a.scores))
  /\ IF BestScore(a.scores) >= a.threshold
       THEN r[1] # None /\ r[1][1] \in BestEntries(a.roster, a.scores)
       ELSE r[1] = None

\* C7 as stated: (None, None) when name or roster is empty; otherwise the best
\* entry with its score when the score is at least the threshold, None with the
\* score when it is below.
C7_MatchAsStated ==
  pc = "matched" =>
    IF arg.name = <<>> \/ arg.roster = <<>>
      THEN ret = <<None, None>>
      ELSE ScoredAnswer(arg, ret)

\* C7 as amended: (None, None) when name or roster is empty, and also when
\* rapidfuzz could not be imported; otherwise the best entry with its score
\* when the score is at least the threshold (a score equal to the threshold is
\* accepted), None with the score when it is below.
C7_MatchWhenAvailable ==
  pc = "matched" =>
    IF arg.name = <<>> \/ arg.roster = <<>> \/ ~HAS_RAPIDFUZZ
      THEN ret = <<None, None>>
      ELSE ScoredAnswer(arg, ret)

\* A best score equal to the threshold, accepted.
C7_Witness ==
  /\ pc = "matched"
  /\ HAS_RAPIDFUZZ
  /\ Len(arg.roster) = 2
  /\ BestScore(arg.scores) = arg.threshold
  /\ ret[1] # None
  /\ ret[2] = Some(arg.threshold)

====
